---- MODULE Spec2Model ----
(***************************************************************************)
(* Model of crates/belly_core/src/ess/property/colors.rs: the hex color    *)
(* codec of the ColorFromHexExtension trait (from_hex, try_from_hex,       *)
(* get_hex, set_hex), parse_hex_color and parse_named_color.               *)
(*                                                                         *)
(* A text is a sequence of one-character strings.  A channel of a Color is *)
(* an f32, kept exactly as <<m, e>> standing for m / 2^e with              *)
(* 2^23 <= m < 2^24, or <<0, 0>> for 0.0, so that the division by 255 of   *)
(* srgba_u8, the decimal literals of the named-color table and the         *)
(* `(channel * 256.0) as u8` of get_hex are computed bit for bit.          *)
(*                                                                         *)
(* The file calls into two crates that are not part of the repository:     *)
(* bevy (Color::srgba, Color::srgba_u8, Color::WHITE, to_srgba) and        *)
(* cssparser (Color::parse_hash).  Their operators below follow the        *)
(* behaviour of those crates at the call sites of the file.                *)
(***************************************************************************)
EXTENDS Integers, Sequences, FiniteSets, TLC

VARIABLES
    text,       \* the argument handed to the parsing functions
    self,       \* the Color built by from_hex / overwritten by set_hex
    strict,     \* what try_from_hex(text) returned
    decoded,    \* what parse_hex_color(text) returned
    named,      \* what parse_named_color(text) returned
    formatted,  \* what get_hex returned, with its receiver
    hex,        \* the argument of the last set_hex call on self
    prev        \* the value of self just before the last set_hex call

vars == <<text, self, strict, decoded, named, formatted, hex, prev>>

(***************************************************************************)
(* Bounds of the model.                                                    *)
(***************************************************************************)
\* longest text of the exhaustive enumeration over Alphabet
MaxLen == 5
\* longest digit string handed to parse_hex_color by the length sweep
MaxDigits == 9
\* longest enumerated argument of set_hex
MaxSetLen == 3

(***************************************************************************)
(* Option / Result values.                                                 *)
(***************************************************************************)
NoCall == [tag |-> "NoCall"]
None == [tag |-> "None"]
Some(v) == [tag |-> "Some", value |-> v]
Ok(v) == [tag |-> "Ok", value |-> v]
Err(e) == [tag |-> "Err", error |-> e]

(***************************************************************************)
(* f32 arithmetic.                                                         *)
(***************************************************************************)
MantissaBits == 23

RECURSIVE Pow2(_)
Pow2(n) == IF n = 0 THEN 1 ELSE 2 * Pow2(n - 1)

F32Zero == <<0, 0>>

\* smallest 24-bit significand, 2^23
MinSignificand == Pow2(MantissaBits)

\* scale the quotient q (remainder r, divisor d) up to a 24-bit significand
RECURSIVE Normalize(_, _, _, _)
Normalize(q, r, d, e) ==
    IF q >= MinSignificand
    THEN [q |-> q, r |-> r, e |-> e]
    ELSE Normalize(2 * q + ((2 * r) \div d), (2 * r) % d, d, e + 1)

\* round to nearest, ties to even
RoundNearestEven(n, d) ==
    LET up == (2 * n.r > d) \/ (2 * n.r = d /\ n.q % 2 = 1)
        m  == IF up THEN n.q + 1 ELSE n.q
    IN  IF m = 2 * MinSignificand
        THEN <<MinSignificand, n.e - 1>>
        ELSE <<m, n.e>>

\* the f32 nearest to n / d, for 0 <= n <= d
F32Div(n, d) ==
    IF n = 0 THEN F32Zero
    ELSE RoundNearestEven(Normalize(n \div d, n % d, d, 0), d)

\* x * 2^k in f32: exact, only the exponent moves
F32MulPow2(x, k) == IF x = F32Zero THEN F32Zero ELSE <<x[1], x[2] - k>>

U8Max == 255

\* variant of as_u8: a cast that wraps modulo 256 instead of saturating
as_u8_wrapping(x) ==
    IF x = F32Zero THEN 0
    ELSE IF x[2] < 0 THEN 0
    ELSE (x[1] \div Pow2(x[2])) % (U8Max + 1)

\* `x as u8` for a non-negative f32: truncates toward zero and saturates
as_u8(x) ==
    IF x = F32Zero THEN 0
    ELSE IF x[2] < 0 THEN U8Max
    ELSE LET t == x[1] \div Pow2(x[2])
         IN  IF t > U8Max THEN U8Max ELSE t

(***************************************************************************)
(* Color constructors (bevy).                                              *)
(***************************************************************************)
\* places of the decimal literals of the table: 0.7529 is written 7529
DecimalScale == 10000

\* Color::srgba(r, g, b, a) on four f32 literals with four decimals
srgba(r, g, b, a) ==
    [red   |-> F32Div(r, DecimalScale),
     green |-> F32Div(g, DecimalScale),
     blue  |-> F32Div(b, DecimalScale),
     alpha |-> F32Div(a, DecimalScale)]

\* Color::srgba_u8(r, g, b, a): each byte as f32 divided by 255.0
srgba_u8(r, g, b, a) ==
    [red   |-> F32Div(r, U8Max),
     green |-> F32Div(g, U8Max),
     blue  |-> F32Div(b, U8Max),
     alpha |-> F32Div(a, U8Max)]

\* Color::WHITE
WHITE == srgba(10000, 10000, 10000, 10000)

\* Color::to_srgba of a color already held as sRGB
to_srgba(c) == c

(***************************************************************************)
(* str helpers.                                                            *)
(***************************************************************************)
WhiteSpace == {" ", "\t", "\n", "\r"}

RECURSIVE trim_start(_)
trim_start(s) ==
    IF s # <<>> /\ Head(s) \in WhiteSpace THEN trim_start(Tail(s)) ELSE s

RECURSIVE trim_end(_)
trim_end(s) ==
    IF s # <<>> /\ s[Len(s)] \in WhiteSpace
    THEN trim_end(SubSeq(s, 1, Len(s) - 1))
    ELSE s

\* str::trim
trim(s) == trim_end(trim_start(s))

\* str::trim_start_matches(c): drops every leading c
RECURSIVE trim_start_matches(_, _)
trim_start_matches(s, c) ==
    IF s # <<>> /\ Head(s) = c THEN trim_start_matches(Tail(s), c) ELSE s

\* ASCII case mapping (to_ascii_lowercase, to_ascii_uppercase)
LowerLetters == <<"a", "b", "c", "d", "e", "f", "g", "h", "i", "j", "k", "l",
                  "m", "n", "o", "p", "q", "r", "s", "t", "u", "v", "w", "x",
                  "y", "z">>

UpperLetters == <<"A", "B", "C", "D", "E", "F", "G", "H", "I", "J", "K", "L",
                  "M", "N", "O", "P", "Q", "R", "S", "T", "U", "V", "W", "X",
                  "Y", "Z">>

LowerChar(c) ==
    IF \E i \in 1..26 : UpperLetters[i] = c
    THEN LowerLetters[CHOOSE i \in 1..26 : UpperLetters[i] = c]
    ELSE c

UpperChar(c) ==
    IF \E i \in 1..26 : LowerLetters[i] = c
    THEN UpperLetters[CHOOSE i \in 1..26 : LowerLetters[i] = c]
    ELSE c

Lower(s) == [i \in 1..Len(s) |-> LowerChar(s[i])]
Upper(s) == [i \in 1..Len(s) |-> UpperChar(s[i])]

HexDigits == <<"0", "1", "2", "3", "4", "5", "6", "7",
               "8", "9", "a", "b", "c", "d", "e", "f">>

UpperHexDigits == <<"0", "1", "2", "3", "4", "5", "6", "7",
                    "8", "9", "A", "B", "C", "D", "E", "F">>

\* {:02x} of a byte
LowerHex2(b) == <<HexDigits[(b \div 16) + 1], HexDigits[(b % 16) + 1]>>

(***************************************************************************)
(* cssparser::Color::parse_hash, as called by parse_hex_color.             *)
(***************************************************************************)
IsHexDigit(c) ==
    \E i \in 1..16 : HexDigits[i] = c \/ UpperHexDigits[i] = c

\* value of one hex digit, either case
HexVal(c) ==
    (CHOOSE i \in 1..16 : HexDigits[i] = c \/ UpperHexDigits[i] = c) - 1

RGBA(r, g, b, a) ==
    [kind |-> "RGBA", red |-> r, green |-> g, blue |-> b, alpha |-> a]

parse_hash(value) ==
    LET n == Len(value)
        v(i) == HexVal(value[i])
    IN  IF n \notin {3, 4, 6, 8} THEN Err(<<>>)
        ELSE IF \E i \in 1..n : ~IsHexDigit(value[i]) THEN Err(<<>>)
        ELSE IF n = 8
        THEN Ok(RGBA(v(1) * 16 + v(2), v(3) * 16 + v(4),
                     v(5) * 16 + v(6), v(7) * 16 + v(8)))
        ELSE IF n = 6
        THEN Ok(RGBA(v(1) * 16 + v(2), v(3) * 16 + v(4),
                     v(5) * 16 + v(6), U8Max))
        ELSE IF n = 4
        THEN Ok(RGBA(v(1) * 17, v(2) * 17, v(3) * 17, v(4) * 17))
        ELSE Ok(RGBA(v(1) * 17, v(2) * 17, v(3) * 17, U8Max))

(***************************************************************************)
(* parse_hex_color.                                                        *)
(***************************************************************************)
CantParse == <<"C", "a", "n", "'", "t", " ", "p", "a", "r", "s", "e", " ",
               "c", "o", "l", "o", "r", " ", "f", "r", "o", "m", " ", "'">>

\* ElementsError::InvalidPropertyValue(format!("Can't parse color from '{hex}'"))
InvalidPropertyValue(h) ==
    [kind |-> "InvalidPropertyValue", message |-> CantParse \o h \o <<"'">>]

\* variant of parse_hex_color: the error message leaves the input out
parse_hex_color_no_input(h) ==
    LET color == parse_hash(h)
    IN  IF color.tag = "Err" THEN Err(InvalidPropertyValue(<<>>))
        ELSE IF color.value.kind = "RGBA"
        THEN Ok(srgba_u8(color.value.red, color.value.green,
                         color.value.blue, color.value.alpha))
        ELSE Err(InvalidPropertyValue(<<>>))

\* variant of parse_hex_color: the parsed alpha is dropped, as by Color::srgb_u8
parse_hex_color_opaque(h) ==
    LET color == parse_hash(h)
    IN  IF color.tag = "Err" THEN Err(InvalidPropertyValue(h))
        ELSE IF color.value.kind = "RGBA"
        THEN Ok(srgba_u8(color.value.red, color.value.green,
                         color.value.blue, U8Max))
        ELSE Err(InvalidPropertyValue(h))

parse_hex_color(h) ==
    LET color == parse_hash(h)
    IN  IF color.tag = "Err" THEN Err(InvalidPropertyValue(h))
        ELSE IF color.value.kind = "RGBA"
        THEN Ok(srgba_u8(color.value.red, color.value.green,
                         color.value.blue, color.value.alpha))
        ELSE Err(InvalidPropertyValue(h))

(***************************************************************************)
(* parse_named_color: the arms of the match, in source order.              *)
(***************************************************************************)
Arm(n, r, g, b, a) == [name |-> n, color |-> srgba(r, g, b, a)]

NamedColors == <<
    Arm(<<"b", "l", "a", "c", "k">>, 0, 0, 0, 10000),
    Arm(<<"s", "i", "l", "v", "e", "r">>, 7529, 7529, 7529, 10000),
    Arm(<<"g", "r", "a", "y">>, 5020, 5020, 5020, 10000),
    Arm(<<"w", "h", "i", "t", "e">>, 10000, 10000, 10000, 10000),
    Arm(<<"m", "a", "r", "o", "o", "n">>, 5020, 0, 0, 10000),
    Arm(<<"r", "e", "d">>, 10000, 0, 0, 10000),
    Arm(<<"p", "u", "r", "p", "l", "e">>, 5020, 0, 5020, 10000),
    Arm(<<"f", "u", "c", "h", "s", "i", "a">>, 10000, 0, 10000, 10000),
    Arm(<<"g", "r", "e", "e", "n">>, 0, 5020, 0, 10000),
    Arm(<<"l", "i", "m", "e">>, 0, 10000, 0, 10000),
    Arm(<<"o", "l", "i", "v", "e">>, 5020, 5020, 0, 10000),
    Arm(<<"y", "e", "l", "l", "o", "w">>, 10000, 10000, 0, 10000),
    Arm(<<"n", "a", "v", "y">>, 0, 0, 5020, 10000),
    Arm(<<"b", "l", "u", "e">>, 0, 0, 10000, 10000),
    Arm(<<"t", "e", "a", "l">>, 0, 5020, 5020, 10000),
    Arm(<<"a", "q", "u", "a">>, 0, 10000, 10000, 10000),
    Arm(<<"o", "r", "a", "n", "g", "e">>, 10000, 6471, 0, 10000),
    Arm(<<"a", "l", "i", "c", "e", "b", "l", "u", "e">>, 9412, 9725, 10000, 10000),
    Arm(<<"a", "n", "t", "i", "q", "u", "e", "w", "h", "i", "t", "e">>, 9804, 9216, 8431, 10000),
    Arm(<<"a", "q", "u", "a", "m", "a", "r", "i", "n", "e">>, 4980, 10000, 8314, 10000),
    Arm(<<"a", "z", "u", "r", "e">>, 9412, 10000, 10000, 10000),
    Arm(<<"b", "e", "i", "g", "e">>, 9608, 9608, 8627, 10000),
    Arm(<<"b", "i", "s", "q", "u", "e">>, 10000, 8941, 7686, 10000),
    Arm(<<"b", "l", "a", "n", "c", "h", "e", "d", "a", "l", "m", "o", "n", "d">>, 10000, 9216, 8039, 10000),
    Arm(<<"b", "l", "u", "e", "v", "i", "o", "l", "e", "t">>, 5412, 1686, 8863, 10000),
    Arm(<<"b", "r", "o", "w", "n">>, 6471, 1647, 1647, 10000),
    Arm(<<"b", "u", "r", "l", "y", "w", "o", "o", "d">>, 8706, 7216, 5294, 10000),
    Arm(<<"c", "a", "d", "e", "t", "b", "l", "u", "e">>, 3725, 6196, 6275, 10000),
    Arm(<<"c", "h", "a", "r", "t", "r", "e", "u", "s", "e">>, 4980, 10000, 0, 10000),
    Arm(<<"c", "h", "o", "c", "o", "l", "a", "t", "e">>, 8235, 4118, 1176, 10000),
    Arm(<<"c", "o", "r", "a", "l">>, 10000, 4980, 3137, 10000),
    Arm(<<"c", "o", "r", "n", "f", "l", "o", "w", "e", "r", "b", "l", "u", "e">>, 3922, 5843, 9294, 10000),
    Arm(<<"c", "o", "r", "n", "s", "i", "l", "k">>, 10000, 9725, 8627, 10000),
    Arm(<<"c", "r", "i", "m", "s", "o", "n">>, 8627, 784, 2353, 10000),
    Arm(<<"c", "y", "a", "n">>, 0, 10000, 10000, 10000),
    Arm(<<"d", "a", "r", "k", "b", "l", "u", "e">>, 0, 0, 5451, 10000),
    Arm(<<"d", "a", "r", "k", "c", "y", "a", "n">>, 0, 5451, 5451, 10000),
    Arm(<<"d", "a", "r", "k", "g", "o", "l", "d", "e", "n", "r", "o", "d">>, 7216, 5255, 431, 10000),
    Arm(<<"d", "a", "r", "k", "g", "r", "a", "y">>, 6627, 6627, 6627, 10000),
    Arm(<<"d", "a", "r", "k", "g", "r", "e", "e", "n">>, 0, 3922, 0, 10000),
    Arm(<<"d", "a", "r", "k", "g", "r", "e", "y">>, 6627, 6627, 6627, 10000),
    Arm(<<"d", "a", "r", "k", "k", "h", "a", "k", "i">>, 7412, 7176, 4196, 10000),
    Arm(<<"d", "a", "r", "k", "m", "a", "g", "e", "n", "t", "a">>, 5451, 0, 5451, 10000),
    Arm(<<"d", "a", "r", "k", "o", "l", "i", "v", "e", "g", "r", "e", "e", "n">>, 3333, 4196, 1843, 10000),
    Arm(<<"d", "a", "r", "k", "o", "r", "a", "n", "g", "e">>, 10000, 5490, 0, 10000),
    Arm(<<"d", "a", "r", "k", "o", "r", "c", "h", "i", "d">>, 6000, 1961, 8000, 10000),
    Arm(<<"d", "a", "r", "k", "r", "e", "d">>, 5451, 0, 0, 10000),
    Arm(<<"d", "a", "r", "k", "s", "a", "l", "m", "o", "n">>, 9137, 5882, 4784, 10000),
    Arm(<<"d", "a", "r", "k", "s", "e", "a", "g", "r", "e", "e", "n">>, 5608, 7373, 5608, 10000),
    Arm(<<"d", "a", "r", "k", "s", "l", "a", "t", "e", "b", "l", "u", "e">>, 2824, 2392, 5451, 10000),
    Arm(<<"d", "a", "r", "k", "s", "l", "a", "t", "e", "g", "r", "a", "y">>, 1843, 3098, 3098, 10000),
    Arm(<<"d", "a", "r", "k", "s", "l", "a", "t", "e", "g", "r", "e", "y">>, 1843, 3098, 3098, 10000),
    Arm(<<"d", "a", "r", "k", "t", "u", "r", "q", "u", "o", "i", "s", "e">>, 0, 8078, 8196, 10000),
    Arm(<<"d", "a", "r", "k", "v", "i", "o", "l", "e", "t">>, 5804, 0, 8275, 10000),
    Arm(<<"d", "e", "e", "p", "p", "i", "n", "k">>, 10000, 784, 5765, 10000),
    Arm(<<"d", "e", "e", "p", "s", "k", "y", "b", "l", "u", "e">>, 0, 7490, 10000, 10000),
    Arm(<<"d", "i", "m", "g", "r", "a", "y">>, 4118, 4118, 4118, 10000),
    Arm(<<"d", "i", "m", "g", "r", "e", "y">>, 4118, 4118, 4118, 10000),
    Arm(<<"d", "o", "d", "g", "e", "r", "b", "l", "u", "e">>, 1176, 5647, 10000, 10000),
    Arm(<<"f", "i", "r", "e", "b", "r", "i", "c", "k">>, 6980, 1333, 1333, 10000),
    Arm(<<"f", "l", "o", "r", "a", "l", "w", "h", "i", "t", "e">>, 10000, 9804, 9412, 10000),
    Arm(<<"f", "o", "r", "e", "s", "t", "g", "r", "e", "e", "n">>, 1333, 5451, 1333, 10000),
    Arm(<<"g", "a", "i", "n", "s", "b", "o", "r", "o">>, 8627, 8627, 8627, 10000),
    Arm(<<"g", "h", "o", "s", "t", "w", "h", "i", "t", "e">>, 9725, 9725, 10000, 10000),
    Arm(<<"g", "o", "l", "d">>, 10000, 8431, 0, 10000),
    Arm(<<"g", "o", "l", "d", "e", "n", "r", "o", "d">>, 8549, 6471, 1255, 10000),
    Arm(<<"g", "r", "e", "e", "n", "y", "e", "l", "l", "o", "w">>, 6784, 10000, 1843, 10000),
    Arm(<<"g", "r", "e", "y">>, 5020, 5020, 5020, 10000),
    Arm(<<"h", "o", "n", "e", "y", "d", "e", "w">>, 9412, 10000, 9412, 10000),
    Arm(<<"h", "o", "t", "p", "i", "n", "k">>, 10000, 4118, 7059, 10000),
    Arm(<<"i", "n", "d", "i", "a", "n", "r", "e", "d">>, 8039, 3608, 3608, 10000),
    Arm(<<"i", "n", "d", "i", "g", "o">>, 2941, 0, 5098, 10000),
    Arm(<<"i", "v", "o", "r", "y">>, 10000, 10000, 9412, 10000),
    Arm(<<"k", "h", "a", "k", "i">>, 9412, 9020, 5490, 10000),
    Arm(<<"l", "a", "v", "e", "n", "d", "e", "r">>, 9020, 9020, 9804, 10000),
    Arm(<<"l", "a", "v", "e", "n", "d", "e", "r", "b", "l", "u", "s", "h">>, 10000, 9412, 9608, 10000),
    Arm(<<"l", "a", "w", "n", "g", "r", "e", "e", "n">>, 4863, 9882, 0, 10000),
    Arm(<<"l", "e", "m", "o", "n", "c", "h", "i", "f", "f", "o", "n">>, 10000, 9804, 8039, 10000),
    Arm(<<"l", "i", "g", "h", "t", "b", "l", "u", "e">>, 6784, 8471, 9020, 10000),
    Arm(<<"l", "i", "g", "h", "t", "c", "o", "r", "a", "l">>, 9412, 5020, 5020, 10000),
    Arm(<<"l", "i", "g", "h", "t", "c", "y", "a", "n">>, 8784, 10000, 10000, 10000),
    Arm(<<"l", "i", "g", "h", "t", "g", "o", "l", "d", "e", "n", "r", "o", "d", "y", "e", "l", "l", "o", "w">>, 9804, 9804, 8235, 10000),
    Arm(<<"l", "i", "g", "h", "t", "g", "r", "a", "y">>, 8275, 8275, 8275, 10000),
    Arm(<<"l", "i", "g", "h", "t", "g", "r", "e", "e", "n">>, 5647, 9333, 5647, 10000),
    Arm(<<"l", "i", "g", "h", "t", "g", "r", "e", "y">>, 8275, 8275, 8275, 10000),
    Arm(<<"l", "i", "g", "h", "t", "p", "i", "n", "k">>, 10000, 7137, 7569, 10000),
    Arm(<<"l", "i", "g", "h", "t", "s", "a", "l", "m", "o", "n">>, 10000, 6275, 4784, 10000),
    Arm(<<"l", "i", "g", "h", "t", "s", "e", "a", "g", "r", "e", "e", "n">>, 1255, 6980, 6667, 10000),
    Arm(<<"l", "i", "g", "h", "t", "s", "k", "y", "b", "l", "u", "e">>, 5294, 8078, 9804, 10000),
    Arm(<<"l", "i", "g", "h", "t", "s", "l", "a", "t", "e", "g", "r", "a", "y">>, 4667, 5333, 6000, 10000),
    Arm(<<"l", "i", "g", "h", "t", "s", "l", "a", "t", "e", "g", "r", "e", "y">>, 4667, 5333, 6000, 10000),
    Arm(<<"l", "i", "g", "h", "t", "s", "t", "e", "e", "l", "b", "l", "u", "e">>, 6902, 7686, 8706, 10000),
    Arm(<<"l", "i", "g", "h", "t", "y", "e", "l", "l", "o", "w">>, 10000, 10000, 8784, 10000),
    Arm(<<"l", "i", "m", "e", "g", "r", "e", "e", "n">>, 1961, 8039, 1961, 10000),
    Arm(<<"l", "i", "n", "e", "n">>, 9804, 9412, 9020, 10000),
    Arm(<<"m", "a", "g", "e", "n", "t", "a">>, 10000, 0, 10000, 10000),
    Arm(<<"m", "e", "d", "i", "u", "m", "a", "q", "u", "a", "m", "a", "r", "i", "n", "e">>, 4000, 8039, 6667, 10000),
    Arm(<<"m", "e", "d", "i", "u", "m", "b", "l", "u", "e">>, 0, 0, 8039, 10000),
    Arm(<<"m", "e", "d", "i", "u", "m", "o", "r", "c", "h", "i", "d">>, 7294, 3333, 8275, 10000),
    Arm(<<"m", "e", "d", "i", "u", "m", "p", "u", "r", "p", "l", "e">>, 5765, 4392, 8588, 10000),
    Arm(<<"m", "e", "d", "i", "u", "m", "s", "e", "a", "g", "r", "e", "e", "n">>, 2353, 7020, 4431, 10000),
    Arm(<<"m", "e", "d", "i", "u", "m", "s", "l", "a", "t", "e", "b", "l", "u", "e">>, 4824, 4078, 9333, 10000),
    Arm(<<"m", "e", "d", "i", "u", "m", "s", "p", "r", "i", "n", "g", "g", "r", "e", "e", "n">>, 0, 9804, 6039, 10000),
    Arm(<<"m", "e", "d", "i", "u", "m", "t", "u", "r", "q", "u", "o", "i", "s", "e">>, 2824, 8196, 8000, 10000),
    Arm(<<"m", "e", "d", "i", "u", "m", "v", "i", "o", "l", "e", "t", "r", "e", "d">>, 7804, 824, 5216, 10000),
    Arm(<<"m", "i", "d", "n", "i", "g", "h", "t", "b", "l", "u", "e">>, 980, 980, 4392, 10000),
    Arm(<<"m", "i", "n", "t", "c", "r", "e", "a", "m">>, 9608, 10000, 9804, 10000),
    Arm(<<"m", "i", "s", "t", "y", "r", "o", "s", "e">>, 10000, 8941, 8824, 10000),
    Arm(<<"m", "o", "c", "c", "a", "s", "i", "n">>, 10000, 8941, 7098, 10000),
    Arm(<<"n", "a", "v", "a", "j", "o", "w", "h", "i", "t", "e">>, 10000, 8706, 6784, 10000),
    Arm(<<"o", "l", "d", "l", "a", "c", "e">>, 9922, 9608, 9020, 10000),
    Arm(<<"o", "l", "i", "v", "e", "d", "r", "a", "b">>, 4196, 5569, 1373, 10000),
    Arm(<<"o", "r", "a", "n", "g", "e", "r", "e", "d">>, 10000, 2706, 0, 10000),
    Arm(<<"o", "r", "c", "h", "i", "d">>, 8549, 4392, 8392, 10000),
    Arm(<<"p", "a", "l", "e", "g", "o", "l", "d", "e", "n", "r", "o", "d">>, 9333, 9098, 6667, 10000),
    Arm(<<"p", "a", "l", "e", "g", "r", "e", "e", "n">>, 5961, 9843, 5961, 10000),
    Arm(<<"p", "a", "l", "e", "t", "u", "r", "q", "u", "o", "i", "s", "e">>, 6863, 9333, 9333, 10000),
    Arm(<<"p", "a", "l", "e", "v", "i", "o", "l", "e", "t", "r", "e", "d">>, 8588, 4392, 5765, 10000),
    Arm(<<"p", "a", "p", "a", "y", "a", "w", "h", "i", "p">>, 10000, 9373, 8353, 10000),
    Arm(<<"p", "e", "a", "c", "h", "p", "u", "f", "f">>, 10000, 8549, 7255, 10000),
    Arm(<<"p", "e", "r", "u">>, 8039, 5216, 2471, 10000),
    Arm(<<"p", "i", "n", "k">>, 10000, 7529, 7961, 10000),
    Arm(<<"p", "l", "u", "m">>, 8667, 6275, 8667, 10000),
    Arm(<<"p", "o", "w", "d", "e", "r", "b", "l", "u", "e">>, 6902, 8784, 9020, 10000),
    Arm(<<"r", "o", "s", "y", "b", "r", "o", "w", "n">>, 7373, 5608, 5608, 10000),
    Arm(<<"r", "o", "y", "a", "l", "b", "l", "u", "e">>, 2549, 4118, 8824, 10000),
    Arm(<<"s", "a", "d", "d", "l", "e", "b", "r", "o", "w", "n">>, 5451, 2706, 745, 10000),
    Arm(<<"s", "a", "l", "m", "o", "n">>, 9804, 5020, 4471, 10000),
    Arm(<<"s", "a", "n", "d", "y", "b", "r", "o", "w", "n">>, 9569, 6431, 3765, 10000),
    Arm(<<"s", "e", "a", "g", "r", "e", "e", "n">>, 1804, 5451, 3412, 10000),
    Arm(<<"s", "e", "a", "s", "h", "e", "l", "l">>, 10000, 9608, 9333, 10000),
    Arm(<<"s", "i", "e", "n", "n", "a">>, 6275, 3216, 1765, 10000),
    Arm(<<"s", "k", "y", "b", "l", "u", "e">>, 5294, 8078, 9216, 10000),
    Arm(<<"s", "l", "a", "t", "e", "b", "l", "u", "e">>, 4157, 3529, 8039, 10000),
    Arm(<<"s", "l", "a", "t", "e", "g", "r", "a", "y">>, 4392, 5020, 5647, 10000),
    Arm(<<"s", "l", "a", "t", "e", "g", "r", "e", "y">>, 4392, 5020, 5647, 10000),
    Arm(<<"s", "n", "o", "w">>, 10000, 9804, 9804, 10000),
    Arm(<<"s", "p", "r", "i", "n", "g", "g", "r", "e", "e", "n">>, 0, 10000, 4980, 10000),
    Arm(<<"s", "t", "e", "e", "l", "b", "l", "u", "e">>, 2745, 5098, 7059, 10000),
    Arm(<<"t", "a", "n">>, 8235, 7059, 5490, 10000),
    Arm(<<"t", "h", "i", "s", "t", "l", "e">>, 8471, 7490, 8471, 10000),
    Arm(<<"t", "o", "m", "a", "t", "o">>, 10000, 3882, 2784, 10000),
    Arm(<<"t", "r", "a", "n", "s", "p", "a", "r", "e", "n", "t">>, 0, 0, 0, 0),
    Arm(<<"t", "u", "r", "q", "u", "o", "i", "s", "e">>, 2510, 8784, 8157, 10000),
    Arm(<<"v", "i", "o", "l", "e", "t">>, 9333, 5098, 9333, 10000),
    Arm(<<"w", "h", "e", "a", "t">>, 9608, 8706, 7020, 10000),
    Arm(<<"w", "h", "i", "t", "e", "s", "m", "o", "k", "e">>, 9608, 9608, 9608, 10000),
    Arm(<<"y", "e", "l", "l", "o", "w", "g", "r", "e", "e", "n">>, 6039, 8039, 1961, 10000),
    Arm(<<"r", "e", "b", "e", "c", "c", "a", "p", "u", "r", "p", "l", "e">>, 4000, 2000, 6000, 10000)
>>

\* variant of parse_named_color: the name is lowercased before the match
parse_named_color_lowercased(name) ==
    IF \E i \in DOMAIN NamedColors : NamedColors[i].name = Lower(name)
    THEN Some(NamedColors[CHOOSE i \in DOMAIN NamedColors :
                              NamedColors[i].name = Lower(name)].color)
    ELSE None

parse_named_color(name) ==
    IF \E i \in DOMAIN NamedColors : NamedColors[i].name = name
    THEN Some(NamedColors[CHOOSE i \in DOMAIN NamedColors :
                              NamedColors[i].name = name].color)
    ELSE None

(***************************************************************************)
(* ColorFromHexExtension.                                                  *)
(***************************************************************************)
\* variant of from_hex: a text that is not hex is looked up as a color name
from_hex_named(color) ==
    LET c == trim_start_matches(trim(color), "#")
        r == parse_hex_color(c)
        n == parse_named_color(trim(color))
    IN  IF r.tag = "Ok" THEN r.value
        ELSE IF n.tag = "Some" THEN n.value
        ELSE WHITE

\* variant of from_hex: the fallback is Color::BLACK
from_hex_black(color) ==
    LET c == trim_start_matches(trim(color), "#")
        r == parse_hex_color(c)
    IN  IF r.tag = "Ok" THEN r.value ELSE srgba(0, 0, 0, 10000)

from_hex(color) ==
    LET c == trim_start_matches(trim(color), "#")
        r == parse_hex_color(c)
    IN  IF r.tag = "Ok" THEN r.value ELSE WHITE

\* format!("{e}") of an ElementsError
Display(e) == [display |-> e]

try_from_hex(color) ==
    LET c == trim_start_matches(trim(color), "#")
        r == parse_hex_color(c)
    IN  IF r.tag = "Ok" THEN Ok(r.value) ELSE Err(Display(r.error))

\* variant of get_hex: the alpha digits are always written
get_hex_with_alpha(c) ==
    LET s == to_srgba(c)
        r == as_u8(F32MulPow2(s.red, 8))
        g == as_u8(F32MulPow2(s.green, 8))
        b == as_u8(F32MulPow2(s.blue, 8))
        a == as_u8(F32MulPow2(s.alpha, 8))
    IN  <<"#">> \o LowerHex2(r) \o LowerHex2(g) \o LowerHex2(b)
                \o LowerHex2(a)

get_hex(c) ==
    LET s == to_srgba(c)
        r == as_u8(F32MulPow2(s.red, 8))
        g == as_u8(F32MulPow2(s.green, 8))
        b == as_u8(F32MulPow2(s.blue, 8))
        a == as_u8(F32MulPow2(s.alpha, 8))
    IN  IF a = 255
        THEN <<"#">> \o LowerHex2(r) \o LowerHex2(g) \o LowerHex2(b)
        ELSE <<"#">> \o LowerHex2(r) \o LowerHex2(g) \o LowerHex2(b)
                     \o LowerHex2(a)

\* variant of set_hex: a text that does not parse leaves the color as it was
set_hex_keep(h) ==
    IF try_from_hex(h).tag = "Ok" THEN from_hex(h) ELSE self

\* the value set_hex assigns to *self
set_hex(h) == from_hex(h)

(***************************************************************************)
(* The texts the functions are applied to.                                 *)
(***************************************************************************)
Keys == {NamedColors[i].name : i \in DOMAIN NamedColors}

\* every text of at most MaxLen characters over Alphabet
Alphabet == {"#", " ", "a", "F", "z"}
Enumerated == UNION {[1..k -> Alphabet] : k \in 0..MaxLen}

\* each name of the table, and spellings close to it
NameTexts ==
    UNION {{k, Upper(k), <<UpperChar(k[1])>> \o Tail(k),
            <<" ">> \o k, k \o <<" ">>, <<"#">> \o k,
            SubSeq(k, 1, Len(k) - 1), k \o <<"s">>} : k \in Keys}

Examples ==
    {<<"#", "f", "f", "0", "0", "0", "0">>,
     <<"#", "F", "F", "0", "0", "0", "0">>,
     <<"f", "f", "0", "0", "0", "0">>,
     <<"n", "o", "t", "a", "c", "o", "l", "o", "r">>,
     <<"#", "z", "z", "z">>,
     <<"d", "e", "a", "d">>,
     <<"f", "a", "c", "e">>,
     <<"f", "0", "a">>,
     <<"z", "z", "z">>,
     <<"R", "E", "D">>,
     <<"3", "C", "3", "C", "3", "C", "F", "F">>,
     <<" ", "#", "f", "f", "0", "0", "0", "0", "8", "0", "\t">>,
     <<"#", "#", "f", "f", "0", "0", "0", "0">>,
     <<"#", "\t", "f", "0", "a">>}

Texts == Enumerated \cup NameTexts \cup Examples

\* hex digit strings: one byte runs over 0..255, the others share a sample
SampleBytes == {60, 255}
Bytes == 0..U8Max

Hex2(b, upper) ==
    IF upper
    THEN <<UpperHexDigits[(b \div 16) + 1], UpperHexDigits[(b % 16) + 1]>>
    ELSE LowerHex2(b)

RECURSIVE HexOfBytes(_, _)
HexOfBytes(bs, upper) ==
    IF bs = <<>> THEN <<>>
    ELSE Hex2(Head(bs), upper) \o HexOfBytes(Tail(bs), upper)

ByteTexts(n) ==
    {(IF hash THEN <<"#">> ELSE <<>>)
        \o HexOfBytes([i \in 1..n |-> IF i = p THEN b ELSE s], upper) :
     p \in 1..n, b \in Bytes, s \in SampleBytes,
     hash \in BOOLEAN, upper \in BOOLEAN}

\* short forms: one digit runs over the 22 hex digits, the others share a sample
AllHexDigits ==
    {HexDigits[i] : i \in 1..16} \cup {UpperHexDigits[i] : i \in 1..16}
SampleDigits == {"0", "a", "F"}

DigitTexts(n) ==
    {(IF hash THEN <<"#">> ELSE <<>>)
        \o [i \in 1..n |-> IF i = p THEN c ELSE s] :
     p \in 1..n, c \in AllHexDigits, s \in SampleDigits, hash \in BOOLEAN}

\* every length up to MaxDigits, all hex or with one character that is not
NotHex == {"g", "G", "z", "#", " ", "-", "/", ":", "@", "h"}

LengthSweep ==
    UNION {{[i \in 1..n |-> c] : c \in SampleDigits}
           \cup {[i \in 1..n |-> IF i = p THEN x ELSE c] :
                 p \in 1..n, x \in NotHex, c \in SampleDigits} :
           n \in 0..MaxDigits}

CodecTexts ==
    ByteTexts(3) \cup ByteTexts(4) \cup DigitTexts(3) \cup DigitTexts(4)
        \cup LengthSweep \cup Keys \cup Examples

\* the arguments of set_hex, and the colors it may overwrite
SetAlphabet == {"#", "a", "F", "z"}
SetTexts == UNION {[1..k -> SetAlphabet] : k \in 0..MaxSetLen} \cup Examples
InitColors == {WHITE, srgba(0, 0, 0, 0), srgba_u8(18, 52, 86, 120)}

(***************************************************************************)
(* Actions: one per function of the file.                                  *)
(***************************************************************************)
FromHex ==
    /\ self' = from_hex(text)
    /\ UNCHANGED <<text, strict, decoded, named, formatted, hex, prev>>

TryFromHex ==
    /\ strict' = try_from_hex(text)
    /\ UNCHANGED <<text, self, decoded, named, formatted, hex, prev>>

ParseHexColor ==
    /\ decoded' = parse_hex_color(text)
    /\ UNCHANGED <<text, self, strict, named, formatted, hex, prev>>

ParseNamedColor ==
    /\ named' = parse_named_color(text)
    /\ UNCHANGED <<text, self, strict, decoded, formatted, hex, prev>>

\* the colors the caller holds and can call get_hex on
Held ==
    (IF self = NoCall THEN {} ELSE {self})
        \cup (IF named.tag = "Some" THEN {named.value} ELSE {})
        \cup (IF decoded.tag = "Ok" THEN {decoded.value} ELSE {})

GetHex ==
    /\ \E c \in Held : formatted' = [receiver |-> c, value |-> get_hex(c)]
    /\ UNCHANGED <<text, self, strict, decoded, named, hex, prev>>

SetHex(h) ==
    /\ self # NoCall
    /\ prev' = self
    /\ self' = set_hex(h)
    /\ hex' = Some(h)
    /\ UNCHANGED <<text, strict, decoded, named, formatted>>

(***************************************************************************)
(* Specifications.                                                         *)
(***************************************************************************)
Fresh ==
    /\ strict = NoCall
    /\ decoded = NoCall
    /\ named = NoCall
    /\ formatted = NoCall
    /\ hex = NoCall
    /\ prev = NoCall

\* the parsing functions on every text of Texts
Init == text \in Texts /\ self = NoCall /\ Fresh
Next == FromHex \/ TryFromHex \/ ParseHexColor \/ ParseNamedColor
Spec == Init /\ [][Next]_vars

\* decoding and formatting of hex digit strings and of the named colors
InitCodec == text \in CodecTexts /\ self = NoCall /\ Fresh
NextCodec == FromHex \/ ParseHexColor \/ ParseNamedColor \/ GetHex
SpecCodec == InitCodec /\ [][NextCodec]_vars

\* set_hex called again and again on one color
InitSet == text = <<>> /\ self \in InitColors /\ Fresh
NextSet == \E h \in SetTexts : SetHex(h)
SpecSet == InitSet /\ [][NextSet]_vars

(***************************************************************************)
(* Vocabulary of the properties.                                           *)
(***************************************************************************)
HexChars == {"0", "1", "2", "3", "4", "5", "6", "7", "8", "9",
             "a", "b", "c", "d", "e", "f", "A", "B", "C", "D", "E", "F"}

\* 3, 4, 6 or 8 hex digits of either case
ValidHexDigits(s) ==
    /\ Len(s) \in {3, 4, 6, 8}
    /\ \A i \in 1..Len(s) : s[i] \in HexChars

\* zero or one leading '#' removed
StripOne(s) == IF s # <<>> /\ Head(s) = "#" THEN Tail(s) ELSE s

\* a hex literal: surrounding whitespace, at most one '#', then the digits
ValidHexLiteral(t) == ValidHexDigits(StripOne(trim(t)))

\* what is left of a text after the trimming and '#' stripping of from_hex
Stripped(t) == trim_start_matches(trim(t), "#")

DigitValue(c) == CHOOSE v \in 0..15 : HexDigits[v + 1] = LowerChar(c)

\* the color a string of 3, 4, 6 or 8 hex digits stands for
ExpectedColor(d) ==
    LET one(i) == 17 * DigitValue(d[i])
        two(i) == 16 * DigitValue(d[2 * i - 1]) + DigitValue(d[2 * i])
    IN  IF Len(d) = 3 THEN srgba_u8(one(1), one(2), one(3), 255)
        ELSE IF Len(d) = 4 THEN srgba_u8(one(1), one(2), one(3), one(4))
        ELSE IF Len(d) = 6 THEN srgba_u8(two(1), two(2), two(3), 255)
        ELSE srgba_u8(two(1), two(2), two(3), two(4))

KeyColor(k) ==
    NamedColors[CHOOSE i \in DOMAIN NamedColors : NamedColors[i].name = k].color

Red == <<"r", "e", "d">>
OpaqueRed == srgba_u8(255, 0, 0, 255)

C2_StrictAndPermissive ==
    /\ (~ValidHexDigits(Stripped(text)) /\ text \notin Keys) =>
        /\ strict # NoCall => strict.tag = "Err"
        /\ self # NoCall => self = srgba(10000, 10000, 10000, 10000)
    /\ strict # NoCall => strict.tag \in {"Ok", "Err"}
    /\ (strict # NoCall /\ strict.tag = "Ok" /\ self # NoCall) =>
        self = strict.value

C2_Witness ==
    /\ text = <<"n", "o", "t", "a", "c", "o", "l", "o", "r">>
    /\ strict.tag = "Err"
    /\ self = WHITE

(***************************************************************************)
(* C3                                                                      *)
(***************************************************************************)
\* C3: parse_hex_color succeeds if and only if its input is 3, 4, 6 or 8 hex
\* digits of either case; otherwise it returns the error, whose message holds
\* the input text between its quotes.
C3_ParseHexColorDomain ==
    decoded # NoCall =>
        /\ decoded.tag \in {"Ok", "Err"}
        /\ decoded.tag = "Ok" <=> ValidHexDigits(text)
        /\ decoded.tag = "Err" =>
            LET m == decoded.error.message
            IN  /\ Len(m) > Len(text)
                /\ m[Len(m)] = "'"
                /\ SubSeq(m, Len(m) - Len(text), Len(m) - 1) = text
                /\ m[Len(m) - Len(text) - 1] = "'"

C3_Witness ==
    /\ text = <<"z", "z", "z">>
    /\ decoded.tag = "Err"

(***************************************************************************)
(* C4                                                                      *)
(***************************************************************************)
\* C4: parse_hex_color decodes each channel of a 3- or 4-digit string as its
\* digit times 17 and each channel of a 6- or 8-digit string as the value of
\* its two-digit pair; alpha is 255 when the string has no alpha digit.
C4_ChannelBytes ==
    (decoded # NoCall /\ decoded.tag = "Ok") =>
        /\ decoded.value = ExpectedColor(text)
        /\ Len(text) \in {3, 6} => decoded.value.alpha = F32Div(255, 255)

C4_Witness ==
    /\ text = <<"f", "0", "a">>
    /\ decoded = Ok(srgba_u8(255, 0, 170, 255))

(***************************************************************************)
(* C5                                                                      *)
(***************************************************************************)
\* C5: for every 6-digit hex string h, of any letter case, with or without a
\* leading '#', get_hex(from_hex(h)) is '#' followed by h lowercased, the
\* implied alpha left out.
C5_RoundTrip6 ==
    (/\ self # NoCall
     /\ formatted # NoCall
     /\ formatted.receiver = self
     /\ ValidHexLiteral(text)
     /\ Len(StripOne(text)) = 6) =>
        formatted.value = <<"#">> \o Lower(StripOne(text))

C5_Witness ==
    /\ text = <<"#", "F", "F", "0", "0", "0", "0">>
    /\ self # NoCall
    /\ formatted # NoCall
    /\ formatted.receiver = self
    /\ formatted.value = <<"#", "f", "f", "0", "0", "0", "0">>

(***************************************************************************)
(* C6                                                                      *)
(***************************************************************************)
\* C6 (as stated): for every 8-digit hex string h, all alpha bytes included,
\* get_hex(from_hex(h)) is '#' followed by h lowercased.
C6_RoundTrip8Exact ==
    (/\ self # NoCall
     /\ formatted # NoCall
     /\ formatted.receiver = self
     /\ ValidHexLiteral(text)
     /\ Len(StripOne(text)) = 8) =>
        formatted.value = <<"#">> \o Lower(StripOne(text))

\* C6 (amended): for every 8-digit hex string h whose alpha byte is not ff,
\* get_hex(from_hex(h)) is '#' followed by h lowercased; when the alpha byte is
\* ff it is the 6-digit form, '#' followed by the first six digits lowercased.
C6_RoundTrip8 ==
    (/\ self # NoCall
     /\ formatted # NoCall
     /\ formatted.receiver = self
     /\ ValidHexLiteral(text)
     /\ Len(StripOne(text)) = 8) =>
        LET h == Lower(StripOne(text))
        IN  IF SubSeq(h, 7, 8) = <<"f", "f">>
            THEN formatted.value = <<"#">> \o SubSeq(h, 1, 6)
            ELSE formatted.value = <<"#">> \o h

C6_Witness ==
    /\ self # NoCall
    /\ formatted # NoCall
    /\ formatted.receiver = self
    /\ text = <<"3", "C", "3", "C", "3", "C", "F", "F">>
    /\ formatted.value = <<"#", "3", "c", "3", "c", "3", "c">>

(***************************************************************************)
(* C7                                                                      *)
(***************************************************************************)
\* C7: try_from_hex decodes a text as hex exactly when, after trimming
\* whitespace and removing zero or one leading '#', the remainder is 3, 4, 6
\* or 8 hex digits; a text with two or more leading '#' is not decoded.
C7_AtMostOneHash ==
    strict # NoCall => (strict.tag = "Ok" <=> ValidHexLiteral(text))

(***************************************************************************)
(* C8                                                                      *)
(***************************************************************************)
\* C8: parse_named_color returns Some exactly when its argument is
\* character for character a key of the table, and None otherwise: never for
\* a spelling with an uppercase letter or surrounding whitespace, nor for a
\* key with a character removed or added.
C8_ExactLookup ==
    named # NoCall =>
        /\ named.tag \in {"Some", "None"}
        /\ named.tag = "Some" <=> text \in Keys
        /\ named.tag = "Some" =>
            /\ named.value = KeyColor(text)
            /\ text = Lower(text)
            /\ text = trim(text)
        /\ (text = Red) => named.tag = "Some"
        /\ (text = <<"R", "E", "D">>) => named = None

C8_Witness ==
    /\ text = <<"R", "E", "D">>
    /\ named = None

(***************************************************************************)
(* C9                                                                      *)
(***************************************************************************)
\* C9: after any sequence of set_hex calls the color is from_hex of the last
\* argument, whatever it was before: the decoded color when the argument is a
\* hex literal for the parser, opaque white otherwise.
C9_SetHexOverwrites ==
    hex # NoCall =>
        /\ self = from_hex(hex.value)
        /\ self = IF ValidHexDigits(Stripped(hex.value))
                  THEN ExpectedColor(Stripped(hex.value))
                  ELSE WHITE

C9_Witness ==
    /\ hex # NoCall
    /\ ~ValidHexDigits(Stripped(hex.value))
    /\ prev # NoCall
    /\ prev # WHITE
    /\ prev \notin InitColors
    /\ self = WHITE

(***************************************************************************)
(* C10                                                                     *)
(***************************************************************************)
\* k / 255 to four decimals, in ten-thousandths
Round4(k) == (2 * k * DecimalScale + 255) \div (2 * 255)

\* round(c * 255) of the decimal c = d / 10000
Round255(d) == (2 * d * 255 + DecimalScale) \div (2 * DecimalScale)

\* the byte a channel of the table stands for
CssByte(ch) ==
    CHOOSE k \in 0..255 : ch = F32Div(Round4(k), DecimalScale)

\* the CSS hex literal of a table color
CssHex(c) ==
    <<"#">> \o LowerHex2(CssByte(c.red)) \o LowerHex2(CssByte(c.green))
            \o LowerHex2(CssByte(c.blue))
            \o (IF CssByte(c.alpha) = 255 THEN <<>>
                ELSE LowerHex2(CssByte(c.alpha)))

\* C10: every channel c of every color of the table is k / 255 to four
\* decimals for a byte k, the quantization of get_hex, min(255, floor(c * 256)),
\* yields k as round(c * 255) does, and get_hex of the color is its CSS hex
\* literal.
C10_TableQuantization ==
    (named # NoCall /\ named.tag = "Some") =>
        /\ \A ch \in {named.value.red, named.value.green,
                      named.value.blue, named.value.alpha} :
             \E k \in 0..255 :
                /\ ch = F32Div(Round4(k), DecimalScale)
                /\ Round255(Round4(k)) = k
                /\ as_u8(F32MulPow2(ch, 8)) = k
        /\ (formatted # NoCall /\ formatted.receiver = named.value) =>
            formatted.value = CssHex(named.value)

====
